---- MODULE Spec2Model ----
(***************************************************************************)
(* The chunking and vector-store core of AI-Helpdesk                       *)
(* (src/ai_helpdesk/utils/chunking.py, src/ai_helpdesk/storage/            *)
(* vector_store.py, src/ai_helpdesk/models.py).                            *)
(*                                                                         *)
(* Text is a sequence of one-character strings.  A store is the triple     *)
(* (_chunks, _embeddings, _embedding_model) of one VectorStore object      *)
(* together with the two files of its storage directory.  The embedding    *)
(* provider and the file system are the environment: what the provider     *)
(* returns and whether a write succeeds are chosen nondeterministically.   *)
(***************************************************************************)
EXTENDS Integers, Sequences, FiniteSets, TLC

\* ------------------------------------------------------------------ bounds
\* most chunks a store may hold: an ingest that would exceed it is not taken
MaxChunks == 2
\* most documents in one add_documents batch
MaxDocs == 2
\* longest text given to chunk_text, in characters
MaxTextLen == 5
\* largest chunk_size and chunk_overlap given to chunk_text
MaxChunkSize == 3

\* ------------------------------------------------------- program constants
DEFAULT_CHUNK_SIZE == 500
DEFAULT_CHUNK_OVERLAP == 100
\* minimum padding width of a chunk ordinal
MinIdDigits == 4

\* ----------------------------------------------------------------- helpers
Min(a, b) == IF a <= b THEN a ELSE b
Max(a, b) == IF a >= b THEN a ELSE b

\* Python's None, and a present value, for Optional attributes and files
None == << >>
Some(v) == << v >>
IsNone(o) == o = << >>
Get(o) == o[1]

\* Python's s[start:end] for 0 <= start: a negative end counts from the right.
\* SliceEnd is the position the slice stops before.
SliceEnd(s, end) == IF end < 0 THEN Max(0, Len(s) + end) ELSE Min(end, Len(s))
PySlice(s, start, end) == SubSeq(s, start + 1, SliceEnd(s, end))

RECURSIVE Concat(_)
Concat(ss) == IF ss = << >> THEN << >> ELSE Head(ss) \o Concat(Tail(ss))

\* ---------------------------------------------------------------- chunking
\* The sliding window shared by _split_by_tokens and _split_by_chars:
\* while start < len(units): append units[start:min(len, start+size)];
\* start += step
\* end = min(len(units), start + chunk_size)
WindowEnd(units, start, chunk_size) == Min(Len(units), start + chunk_size)

\* Step with the difference taken as it is
Step_unclamped(chunk_size, chunk_overlap) == chunk_size - chunk_overlap

\* Step that advances by a whole chunk
Step_without_overlap(chunk_size, chunk_overlap) == Max(1, chunk_size)

\* step = max(1, chunk_size - chunk_overlap)
Step(chunk_size, chunk_overlap) == Max(1, chunk_size - chunk_overlap)

RECURSIVE Window(_, _, _, _)
Window(units, start, chunk_size, step) ==
    IF start < Len(units)
    THEN << PySlice(units, start, WindowEnd(units, start, chunk_size)) >>
         \o Window(units, start + step, chunk_size, step)
    ELSE << >>

_split_by_chars(text, chunk_size, chunk_overlap) ==
    Window(text, 0, chunk_size, Step(chunk_size, chunk_overlap))

\* The tokenizer is an external library.  It is modelled by a tokenizer that
\* merges adjacent pairs of characters into one token; decode concatenates.
RECURSIVE Encode(_)
Encode(text) ==
    IF Len(text) <= 2 THEN (IF text = << >> THEN << >> ELSE << text >>)
    ELSE << SubSeq(text, 1, 2) >> \o Encode(SubSeq(text, 3, Len(text)))

Decode(tokens) == Concat(tokens)

_split_by_tokens(text, chunk_size, chunk_overlap) ==
    LET tokens == Encode(text)
        windows == Window(tokens, 0, chunk_size, Step(chunk_size, chunk_overlap))
    IN  [i \in 1..Len(windows) |-> Decode(windows[i])]

\* tiktoken is TRUE when the tokenizer is importable and does not raise
chunk_text(text, chunk_size, chunk_overlap, tiktoken) ==
    IF text = << >> THEN << >>
    ELSE IF tiktoken THEN _split_by_tokens(text, chunk_size, chunk_overlap)
    ELSE _split_by_chars(text, chunk_size, chunk_overlap)

\* ---------------------------------------------------------- chunk identity
DigitChars == << "0", "1", "2", "3", "4", "5", "6", "7", "8", "9" >>

\* str(n) for n >= 0
RECURSIVE Str(_)
Str(n) == IF n < 10 THEN << DigitChars[n + 1] >>
          ELSE Str(n \div 10) \o << DigitChars[(n % 10) + 1] >>

\* str.zfill(width)
ZFill(s, width) ==
    IF Len(s) >= width THEN s
    ELSE [i \in 1..(width - Len(s)) |-> "0"] \o s

\* math.ceil(math.log10(m)) for m >= 1: the least k with 10^k >= m
RECURSIVE CeilLog10From(_, _, _)
CeilLog10From(m, k, pow) ==
    IF pow >= m THEN k ELSE CeilLog10From(m, k + 1, pow * 10)
\* CeilLog10 taken of the chunk count instead of the count plus one
CeilLog10_of_count(m) == CeilLog10From(m - 1, 0, 1)

CeilLog10(m) == CeilLog10From(m, 0, 1)

enumerate_chunks(chunks, prefix) ==
    LET total_digits == IF chunks # << >>
                        THEN Max(MinIdDigits, CeilLog10(Len(chunks) + 1))
                        ELSE MinIdDigits
    IN  [idx \in 1..Len(chunks) |-> prefix \o << "-" >> \o ZFill(Str(idx), total_digits)]

\* ------------------------------------------------------------- data model
\* models.py: Document and DocumentChunk are records of these fields
ChunkFields == << "id", "document_id", "source", "content", "metadata" >>

DocumentChunk(id, document_id, source, content, metadata) ==
    [id |-> id, document_id |-> document_id, source |-> source,
     content |-> content, metadata |-> metadata]

SearchResult(chunk, score) == [chunk |-> chunk, score |-> score]

\* ------------------------------------------------------------------ inputs
Chars == << "p", "q", "r", "s", "t", "u" >>
Text(n) == [i \in 1..n |-> Chars[i]]

DocIds == { << "a" >>, << "b" >> }
\* what the acquisition collaborators attach to a document (ingestion/web.py,
\* ingestion/notion.py)
SourceOf(id) == IF id = << "a" >> THEN "web" ELSE "notion"
MetadataOf(id) == IF id = << "a" >> THEN [url |-> "u", title |-> "T"]
                  ELSE [path |-> "f"]

\* lengths of the document contents, in characters
ContentLengths == { 0, 2 }

Documents ==
    { [id |-> d, source |-> SourceOf(d), content |-> Text(n), metadata |-> MetadataOf(d)] :
        d \in DocIds, n \in ContentLengths }

Batches == UNION { [1..k -> Documents] : k \in 0..MaxDocs }

\* <<chunk_size, chunk_overlap>> of a call: the defaults, and one character
\* per chunk
ChunkParams == { << DEFAULT_CHUNK_SIZE, DEFAULT_CHUNK_OVERLAP >>, << 1, 0 >> }

\* Embedding providers: a model name and the fixed width of its vectors
Embedders == { [model_name |-> "m1", width |-> 1], [model_name |-> "m2", width |-> 2] }

\* The vectors a provider of width w returns: two unit vectors, on which
\* the float32 arithmetic of search is exact.
Vectors(w) == IF w = 1 THEN { << 1 >>, << 0 - 1 >> } ELSE { << 1, 0 >>, << 0, 1 >> }

\* A 2-D array: its column count and its rows
Matrix(ncols, rows) == [ncols |-> ncols, rows |-> rows]
NRows(m) == Len(m.rows)

\* What embedder.embed(texts) followed by np.asarray(.., float32) can give:
\* an exception ("raise"), an array that is not 2-D (ndim 1), or a 2-D
\* matrix; the matrices a provider returns for the texts of an ingest have
\* one row per text (the provider's contract, llm.py OpenAIEmbedder.embed)
ReplyShapes == { "raise", "1-D", "2-D" }
\* the shape of a reply: for an array its dimensions
ShapeOf(shape, nrows, ncols) ==
    IF shape = "raise" THEN << "raise" >>
    ELSE IF shape = "1-D" THEN << "array", nrows >>
    ELSE << "array", nrows, ncols >>
EmbedMatrices(embedder, texts) ==
    { Matrix(embedder.width, rows) : rows \in [1..Len(texts) -> Vectors(embedder.width)] }

\* For the single query text the code itself checks the row count, so a
\* 2-D reply of two rows is among the replies
QueryShapes == ReplyShapes \cup { "2-D, two rows" }
QueryShapeOf(shape, ncols) ==
    IF shape = "2-D, two rows" THEN << "array", 2, ncols >> ELSE ShapeOf(shape, 1, ncols)

\* top_k of a search: negative, zero, one, and the largest store size
TopKs == { 0 - 1, 0, 1, MaxChunks }

\* arguments of a chunk_text call made on its own: the function takes any
\* integers, the set includes non-positive sizes and negative overlaps
SplitTexts == { Text(n) : n \in 0..MaxTextLen }
SplitSizes == (0 - 1)..MaxChunkSize
SplitOverlaps == (0 - 2)..MaxChunkSize

\* lengths of the chunk lists given to enumerate_chunks on its own: none,
\* and both sides of each change of the padding width
ChunkCounts == { 0, 1, 9, 10, 9999, 10000 }
ChunkLists == { [i \in 1..n |-> << "p" >>] : n \in ChunkCounts }

\* ------------------------------------------------------------------- state
VARIABLES
    chunks,            \* VectorStore._chunks: sequence of DocumentChunk
    embeddings,        \* VectorStore._embeddings: None or Some(matrix)
    embedding_model,   \* VectorStore._embedding_model: None or Some(name)
    meta_file,         \* metadata.json: None (absent) or Some(payload)
    vectors_file,      \* vectors.npy: None (absent) or Some(matrix)
    op,                \* the last call: "open", "add_documents" or "search"
    outcome,           \* how it ended: "returned" or the exception raised
    embed_reply,       \* None if the last call did not call embedder.embed,
                       \* else Some(shape of what it gave)
    top_k,             \* argument of the last search
    similarities,      \* local of the last search: one score per matrix row
    results,           \* what the last search returned
    top_indices,       \* local of the last search: row index of each result
    log,               \* history: Some(<<text, row>> per chunk, as the provider
                       \* returned them), None if the store was opened on files
                       \* of two different saves
    dir_complete,      \* history: the directory is empty or the last _save
                       \* wrote both of its files
    batch_order,       \* history: if the last call changed the chunk list, the
                       \* ids of its documents that have text, in input order
    pc,                \* position of a chunker call made on its own: "idle",
                       \* "chunk_text", "loop", "returned", "enumerate_chunks",
                       \* "ids"
    split_text,        \* chunk_text: argument text
    split_size,        \* chunk_text: argument chunk_size
    split_overlap,     \* chunk_text: argument chunk_overlap
    split_tiktoken,    \* chunk_text: the token strategy is taken
    split_units,       \* the sequence the window slides on: tokens or text
    split_start,       \* local start of the loop
    split_chunks,      \* local chunks of the loop
    split_spans,       \* history: <<first, stop>> positions of each slice taken
    returned_chunks,   \* what chunk_text returned; argument of enumerate_chunks
    id_prefix,         \* enumerate_chunks: argument prefix
    returned_ids       \* what enumerate_chunks returned

store == << chunks, embeddings, embedding_model >>
disk == << meta_file, vectors_file >>
last_search == << top_k, similarities, results, top_indices >>
split_args == << split_text, split_size, split_overlap, split_tiktoken >>
split_loop == << split_units, split_start, split_chunks, split_spans >>
chunker == << pc, split_args, split_loop, returned_chunks, id_prefix, returned_ids >>
store_vars == << chunks, embeddings, embedding_model, meta_file, vectors_file, op, outcome,
                 embed_reply, top_k, similarities, results, top_indices, log, dir_complete,
                 batch_order >>
vars == << store_vars, chunker >>

\* ------------------------------------------------------------- persistence
\* json.dump of a dict: the members of the JSON object
JsonObject(d) == { << k, d[k] >> : k \in DOMAIN d }
\* json.load of a JSON object: the dict of its members
JsonDict(members) ==
    [k \in { m[1] : m \in members } |-> (CHOOSE m \in members : m[1] = k)[2]]

\* dataclasses.asdict(chunk), as written by json.dump: the fields in order
asdict(chunk) ==
    [i \in 1..Len(ChunkFields) |->
        << ChunkFields[i],
           IF ChunkFields[i] = "metadata" THEN JsonObject(chunk.metadata)
           ELSE chunk[ChunkFields[i]] >>]

\* item[key] of a loaded JSON object
Member(item, key) ==
    LET i == CHOOSE i \in 1..Len(item) : item[i][1] = key IN item[i][2]

\* ChunkFromItem reading document_id from the "id" member
ChunkFromItem_id_as_document_id(item) ==
    DocumentChunk(Member(item, "id"), Member(item, "id"), Member(item, "source"),
                  Member(item, "content"), JsonDict(Member(item, "metadata")))

\* DocumentChunk(**item)
ChunkFromItem(item) ==
    DocumentChunk(Member(item, "id"), Member(item, "document_id"), Member(item, "source"),
                  Member(item, "content"), JsonDict(Member(item, "metadata")))

\* the payload _save writes to metadata.json
Payload(chunk_list, model) ==
    [chunks |-> [i \in 1..Len(chunk_list) |-> asdict(chunk_list[i])],
     embedding_model |-> model]

\* _load: the attributes after reading the directory, given the attributes
\* the constructor set (empty list, None, None)
LoadedChunks(meta, vectors) ==
    IF ~IsNone(meta) /\ ~IsNone(vectors)
    THEN [i \in 1..Len(Get(meta).chunks) |-> ChunkFromItem(Get(meta).chunks[i])]
    ELSE << >>
LoadedModel(meta, vectors) ==
    IF ~IsNone(meta) /\ ~IsNone(vectors) THEN Get(meta).embedding_model ELSE None
LoadedEmbeddings(meta, vectors) ==
    IF ~IsNone(meta) /\ ~IsNone(vectors) THEN vectors ELSE None

\* _save: metadata.json is written first, then vectors.npy.  vectors_written
\* is FALSE when np.save raises (or the process stops) after metadata.json
\* has been written.
SavedMeta(chunk_list, model) == Some(Payload(chunk_list, model))
SavedVectors(matrix, vectors_written, old_file) ==
    IF ~IsNone(matrix) /\ vectors_written THEN matrix ELSE old_file

\* ---------------------------------------------------------------- numerics
RECURSIVE DotFrom(_, _, _)
DotFrom(u, v, i) == IF i > Len(u) THEN 0 ELSE u[i] * v[i] + DotFrom(u, v, i + 1)
Dot(u, v) == DotFrom(u, v, 1)

\* np.linalg.norm, exact for the vectors of Vectors(w), whose norm is 0 or 1
Norm(v) == CHOOSE r \in 0..Dot(v, v) : r * r <= Dot(v, v) /\ Dot(v, v) < (r + 1) * (r + 1)

\* (row . q) / ((|row| + 1e-10) * (|q| + 1e-10)) in float32: the epsilon only
\* keeps the division defined when a norm is 0, where the dot product is 0 too
Similarity(row, q) ==
    IF Norm(row) = 0 \/ Norm(q) = 0 THEN 0
    ELSE Dot(row, q) \div (Norm(row) * Norm(q))

\* doc_vectors @ query_vec, divided by the norms: one score per row
RECURSIVE Scores(_, _)
Scores(doc_vectors, query_vec) ==
    IF doc_vectors = << >> THEN << >>
    ELSE << Similarity(Head(doc_vectors), query_vec) >> \o Scores(Tail(doc_vectors), query_vec)

\* VStack with the new rows stacked above the old ones
VStack_new_rows_first(a, b) == Matrix(a.ncols, b.rows \o a.rows)

\* np.vstack([a, b]) of two matrices of the same column count
VStack(a, b) == Matrix(a.ncols, a.rows \o b.rows)

\* similarities.argsort(): an index order that sorts the scores ascending.
\* The default kind is quicksort, which numpy documents as not stable: the
\* order of equal scores is whatever the build produces.
ArgSorts(scores) ==
    { p \in Permutations(1..Len(scores)) :
        \A i, j \in 1..Len(scores) : i < j => scores[p[i]] <= scores[p[j]] }

\* order[::-1]
Reversed(order) == [i \in 1..Len(order) |-> order[Len(order) + 1 - i]]

\* order[:k]
Prefix(order, k) == PySlice(order, 0, k)

\* ------------------------------------------------------------ add_documents
ChunksOfDocument(document, chunk_size, chunk_overlap, tiktoken) ==
    LET texts == chunk_text(document.content, chunk_size, chunk_overlap, tiktoken)
        chunk_ids == enumerate_chunks(texts, document.id)
    IN  [i \in 1..Len(texts) |->
            DocumentChunk(chunk_ids[i], document.id, document.source, texts[i],
                          document.metadata)]

RECURSIVE NewChunks(_, _, _, _)
NewChunks(documents, chunk_size, chunk_overlap, tiktoken) ==
    IF documents = << >> THEN << >>
    ELSE ChunksOfDocument(Head(documents), chunk_size, chunk_overlap, tiktoken)
         \o NewChunks(Tail(documents), chunk_size, chunk_overlap, tiktoken)

\* AppendedChunks taking the first-ingest branch always
AppendedChunks_replacing(old_chunks, old_embeddings, new_chunks) == new_chunks

\* the in-memory state after a validated ingest
AppendedChunks(old_chunks, old_embeddings, new_chunks) ==
    IF IsNone(old_embeddings) THEN new_chunks ELSE old_chunks \o new_chunks
AppendedEmbeddings(old_embeddings, matrix) ==
    IF IsNone(old_embeddings) THEN Some(matrix) ELSE Some(VStack(Get(old_embeddings), matrix))

\* DimensionMismatch with the comparison inverted
DimensionMismatch_inverted(old_embeddings, ncols) ==
    ~IsNone(old_embeddings) /\ ncols = Get(old_embeddings).ncols

\* DimensionMismatch without the check
DimensionMismatch_unchecked(old_embeddings, ncols) == FALSE

\* the width check applied when the store already holds embeddings
DimensionMismatch(old_embeddings, ncols) ==
    ~IsNone(old_embeddings) /\ ncols # Get(old_embeddings).ncols

NoSearch ==
    /\ top_k' = 0
    /\ similarities' = << >>
    /\ results' = << >>
    /\ top_indices' = << >>

\* Raise after the model name of the call has been recorded
Raise_model_recorded(exception) ==
    /\ outcome' = exception
    /\ embedding_model' = Some("recorded")
    /\ UNCHANGED << chunks, embeddings, disk, log, dir_complete >>

\* an exception raised before any assignment of add_documents
Raise(exception) ==
    /\ outcome' = exception
    /\ UNCHANGED << store, disk, log, dir_complete >>

\* The chunk lists the first loop of add_documents builds from the batches
NewChunkLists ==
    { NewChunks(documents, params[1], params[2], tiktoken) :
        documents \in Batches, params \in ChunkParams, tiktoken \in BOOLEAN }

\* Each chunk list with the ids of the documents of its batch that have text
RECURSIVE DocOrder(_)
DocOrder(documents) ==
    IF documents = << >> THEN << >>
    ELSE (IF Head(documents).content = << >> THEN << >> ELSE << Head(documents).id >>)
         \o DocOrder(Tail(documents))
NewChunkCalls ==
    { << NewChunks(documents, params[1], params[2], tiktoken), DocOrder(documents) >> :
        documents \in Batches, params \in ChunkParams, tiktoken \in BOOLEAN }

\* add_documents from the end of its first loop on: new_chunks is
\* NewChunks(documents, chunk_size, chunk_overlap, tiktoken)
add_documents(new_chunks, embedder) ==
    LET chunk_texts == [i \in 1..Len(new_chunks) |-> new_chunks[i].content]
    IN  /\ op' = "add_documents"
        /\ NoSearch
        /\ IF new_chunks = << >>
           THEN /\ embed_reply' = None
                /\ outcome' = "returned"
                /\ UNCHANGED << store, disk, log, dir_complete >>
           ELSE \E shape \in ReplyShapes :
                  /\ embed_reply' = Some(ShapeOf(shape, Len(chunk_texts), embedder.width))
                  /\ IF shape = "raise"
                     THEN Raise("ProviderError")
                     ELSE IF shape # "2-D"
                     THEN Raise("ValueError: Embeddings must be a 2D array")
                     ELSE IF DimensionMismatch(embeddings, embedder.width)
                     THEN Raise("ValueError: Embedding dimension mismatch")
                     ELSE /\ \E matrix \in EmbedMatrices(embedder, chunk_texts),
                                vectors_written \in BOOLEAN :
                               /\ chunks' = AppendedChunks(chunks, embeddings, new_chunks)
                               /\ embeddings' = AppendedEmbeddings(embeddings, matrix)
                               /\ embedding_model' = Some(embedder.model_name)
                               /\ log' = IF IsNone(log) THEN None
                                         ELSE Some(Get(log) \o
                                                   [i \in 1..Len(chunk_texts) |->
                                                      << chunk_texts[i], matrix.rows[i] >>])
                               /\ meta_file' = SavedMeta(chunks', embedding_model')
                               /\ vectors_file' =
                                    SavedVectors(embeddings', vectors_written, vectors_file)
                               /\ dir_complete' = vectors_written
                               /\ outcome' = IF vectors_written THEN "returned" ELSE "OSError"

\* ------------------------------------------------------------------- search
\* ReturnEmpty placed after the call of the provider
ReturnEmpty_after_embed ==
    /\ embed_reply' = Some(<< "array", 1, 1 >>)
    /\ outcome' = "returned"
    /\ similarities' = << >>
    /\ top_indices' = << >>
    /\ results' = << >>

\* the early return of search on a store without chunks
ReturnEmpty ==
    /\ embed_reply' = None
    /\ outcome' = "returned"
    /\ similarities' = << >>
    /\ top_indices' = << >>
    /\ results' = << >>

SearchFails(exception) ==
    /\ outcome' = exception
    /\ similarities' = << >>
    /\ top_indices' = << >>
    /\ results' = << >>

search(embedder, k) ==
    /\ op' = "search"
    /\ top_k' = k
    /\ UNCHANGED << store, disk, log, dir_complete >>
    /\ IF chunks = << >> \/ IsNone(embeddings)
       THEN ReturnEmpty
       ELSE \E shape \in QueryShapes :
              /\ embed_reply' = Some(QueryShapeOf(shape, embedder.width))
              /\ IF shape = "raise"
                 THEN SearchFails("ProviderError")
                 ELSE IF shape # "2-D"
                 THEN SearchFails("ValueError: Query embedding must be a 2D array with a single row")
                 ELSE IF embedder.width # Get(embeddings).ncols
                 THEN SearchFails("ValueError: matmul shapes")
                 ELSE \E query_vec \in Vectors(embedder.width) :
                      \E scores \in { Scores(Get(embeddings).rows, query_vec) } :
                      \E order \in ArgSorts(scores) :
                        LET indices == Prefix(Reversed(order), k)
                        IN  /\ similarities' = scores
                            /\ top_indices' = indices
                            /\ IF \E j \in 1..Len(indices) : indices[j] > Len(chunks)
                               THEN /\ outcome' = "IndexError"
                                    /\ results' = << >>
                               ELSE /\ outcome' = "returned"
                                    /\ results' =
                                         [j \in 1..Len(indices) |->
                                            SearchResult(chunks[indices[j]],
                                                         scores[indices[j]])]

\* properties of the store object
chunk_count == Len(chunks)
embedding_dimension == IF IsNone(embeddings) THEN None ELSE Some(Get(embeddings).ncols)

\* --------------------------------------------------------------- __init__
\* A new VectorStore object on the same directory (mkdir is idempotent)
Open ==
    /\ op' = "open"
    /\ outcome' = "returned"
    /\ embed_reply' = None
    /\ NoSearch
    /\ chunks' = LoadedChunks(meta_file, vectors_file)
    /\ embedding_model' = LoadedModel(meta_file, vectors_file)
    /\ embeddings' = LoadedEmbeddings(meta_file, vectors_file)
    /\ log' = IF IsNone(meta_file) \/ IsNone(vectors_file) THEN Some(<< >>)
              ELSE IF dir_complete THEN log
              ELSE None
    /\ batch_order' = << >>
    /\ UNCHANGED << disk, dir_complete, chunker >>

\* ----------------------------------------------------------- specification
\* A store opened on a directory that does not hold the two files yet
StoreEmpty ==
    /\ chunks = << >>
    /\ embeddings = None
    /\ embedding_model = None
    /\ meta_file = None
    /\ vectors_file = None
    /\ op = "open"
    /\ outcome = "returned"
    /\ embed_reply = None
    /\ top_k = 0
    /\ similarities = << >>
    /\ results = << >>
    /\ top_indices = << >>
    /\ log = Some(<< >>)
    /\ dir_complete = TRUE
    /\ batch_order = << >>

\* no chunker call is made on its own
ChunkerIdle ==
    /\ pc = "idle"
    /\ split_text = << >>
    /\ split_size = 0
    /\ split_overlap = 0
    /\ split_tiktoken = FALSE
    /\ split_units = << >>
    /\ split_start = 0
    /\ split_chunks = << >>
    /\ split_spans = << >>
    /\ returned_chunks = << >>
    /\ id_prefix = << >>
    /\ returned_ids = << >>

Init == StoreEmpty /\ ChunkerIdle

AddDocuments ==
    \E call \in NewChunkCalls, embedder \in Embedders :
        /\ Len(chunks) + Len(call[1]) <= MaxChunks
        /\ add_documents(call[1], embedder)
        /\ batch_order' = IF chunks' # chunks THEN call[2] ELSE << >>
        /\ UNCHANGED chunker

Search ==
    /\ \E embedder \in Embedders, k \in TopKs : search(embedder, k)
    /\ batch_order' = << >>
    /\ UNCHANGED chunker

Next == AddDocuments \/ Search \/ Open

Spec == Init /\ [][Next]_vars

\* ------------------------------------------------- the chunker on its own
\* chunk_text up to the loop of the strategy it takes
ChunkText ==
    /\ pc = "chunk_text"
    /\ IF split_text = << >>
       THEN /\ pc' = "returned"
            /\ returned_chunks' = << >>
            /\ UNCHANGED split_loop
       ELSE /\ pc' = "loop"
            /\ split_units' = IF split_tiktoken THEN Encode(split_text) ELSE split_text
            /\ split_start' = 0
            /\ split_chunks' = << >>
            /\ split_spans' = << >>
            /\ UNCHANGED returned_chunks
    /\ UNCHANGED << store_vars, split_args, id_prefix, returned_ids >>

\* one iteration of the while loop of _split_by_tokens / _split_by_chars
SplitStep ==
    /\ pc = "loop"
    /\ split_start < Len(split_units)
    /\ LET stop == WindowEnd(split_units, split_start, split_size)
           piece == PySlice(split_units, split_start, stop)
       IN  /\ split_chunks' =
                Append(split_chunks, IF split_tiktoken THEN Decode(piece) ELSE piece)
           /\ split_spans' =
                Append(split_spans, << split_start, SliceEnd(split_units, stop) >>)
    /\ split_start' = split_start + Step(split_size, split_overlap)
    /\ UNCHANGED << store_vars, pc, split_args, split_units, returned_chunks,
                    id_prefix, returned_ids >>

\* the loop condition fails: return chunks
SplitReturn ==
    /\ pc = "loop"
    /\ ~(split_start < Len(split_units))
    /\ pc' = "returned"
    /\ returned_chunks' = split_chunks
    /\ UNCHANGED << store_vars, split_args, split_loop, id_prefix, returned_ids >>

\* enumerate_chunks on a chunk list: the one chunk_text returned (as in
\* add_documents) or the one given
EnumerateChunks ==
    /\ pc \in { "returned", "enumerate_chunks" }
    /\ pc' = "ids"
    /\ returned_ids' = enumerate_chunks(returned_chunks, id_prefix)
    /\ UNCHANGED << store_vars, split_args, split_loop, returned_chunks, id_prefix >>

\* A call of chunk_text, or of enumerate_chunks, with arguments of the sets
ChunkInit ==
    /\ StoreEmpty
    /\ id_prefix \in DocIds
    /\ split_units = << >>
    /\ split_start = 0
    /\ split_chunks = << >>
    /\ split_spans = << >>
    /\ returned_ids = << >>
    /\ \/ /\ pc = "chunk_text"
          /\ split_text \in SplitTexts
          /\ split_size \in SplitSizes
          /\ split_overlap \in SplitOverlaps
          /\ split_tiktoken \in BOOLEAN
          /\ returned_chunks = << >>
       \/ /\ pc = "enumerate_chunks"
          /\ split_text = << >>
          /\ split_size = 0
          /\ split_overlap = 0
          /\ split_tiktoken = FALSE
          /\ returned_chunks \in ChunkLists

ChunkNext == ChunkText \/ SplitStep \/ SplitReturn \/ EnumerateChunks

ChunkSpec == ChunkInit /\ [][ChunkNext]_vars

\* A call of chunk_text whose result goes to enumerate_chunks, as in
\* add_documents.  The interpreter keeps running a call that has a next
\* statement.
SplitInit == ChunkInit /\ pc = "chunk_text"
FairChunkSpec == SplitInit /\ [][ChunkNext]_vars /\ WF_vars(ChunkNext)

\* the loop, taken step by step, returns what chunk_text gives
LoopIsChunkText ==
    (pc = "returned")
    => returned_chunks = chunk_text(split_text, split_size, split_overlap, split_tiktoken)

\* ------------------------------------------------------------------ claims
StoredRows == IF IsNone(embeddings) THEN << >> ELSE Get(embeddings).rows

\* the provider returned a 2-D matrix in the call of the given reply
ReplyIs2D(reply) == ~IsNone(reply) /\ Len(Get(reply)) = 3
ReplyWidth(reply) == Get(reply)[3]

\* what a new VectorStore on the directory would hold equals what this one holds
RoundTrips ==
    /\ LoadedChunks(meta_file, vectors_file) = chunks
    /\ LoadedEmbeddings(meta_file, vectors_file) = embeddings

\* C1: on a store that holds embeddings of width d, an add_documents call
\* whose provider returns a 2-D matrix of another width raises the
\* dimension-mismatch error, and the chunk list, the matrix, the recorded
\* model name and both files are what they were before the call.
C1_MismatchRejected ==
    [][ ( /\ op' = "add_documents"
          /\ ~IsNone(embeddings)
          /\ ReplyIs2D(embed_reply')
          /\ ReplyWidth(embed_reply') # Get(embeddings).ncols )
        => ( /\ outcome' = "ValueError: Embedding dimension mismatch"
             /\ UNCHANGED << store, disk >> ) ]_vars

C1_Witness ==
    /\ op = "add_documents"
    /\ outcome = "ValueError: Embedding dimension mismatch"
    /\ chunk_count >= 1
    /\ ReplyIs2D(embed_reply)
    /\ ReplyWidth(embed_reply) # Get(embeddings).ncols
    /\ ~IsNone(meta_file) /\ ~IsNone(vectors_file)

\* C2: a returning add_documents call on a store that agrees with its
\* directory leaves a directory from which a new VectorStore loads the same
\* chunk list and the same matrix as the store holds (so does every sequence
\* of returning calls after the constructor, which loads what it holds).
C2_RoundTrip ==
    [][ (RoundTrips /\ op' = "add_documents" /\ outcome' = "returned") => RoundTrips' ]_vars

C2_Witness ==
    /\ op = "add_documents"
    /\ outcome = "returned"
    /\ chunk_count >= 2
    /\ chunks[1].document_id # chunks[2].document_id
    /\ ~IsNone(embed_reply)
    /\ RoundTrips

\* C3: opening a store on a directory whose two files both exist and hold
\* different numbers of chunks and rows signals a load error.
C3_LoadChecked ==
    ( /\ op = "open"
      /\ ~IsNone(meta_file) /\ ~IsNone(vectors_file)
      /\ Len(Get(meta_file).chunks) # NRows(Get(vectors_file)) )
    => outcome # "returned"

\* C4: no two chunk records of the store have the same id.
C4_UniqueChunkIds ==
    \A i, j \in 1..Len(chunks) : i # j => chunks[i].id # chunks[j].id

\* C5: every row of the matrix has the width embedding_dimension, and once
\* embedding_dimension is set no add_documents or search call of the store
\* object changes it.
C5_WidthFixed ==
    /\ [](\A i \in 1..Len(StoredRows) : Some(Len(StoredRows[i])) = embedding_dimension)
    /\ [][ (~IsNone(embedding_dimension) /\ op' # "open")
           => embedding_dimension' = embedding_dimension ]_vars

C5_Witness ==
    /\ op = "add_documents"
    /\ outcome = "returned"
    /\ ~IsNone(embed_reply)
    /\ Len(StoredRows) >= 2
    /\ chunks[1].document_id # chunks[2].document_id

\* C6: after an add_documents call that returns, on a store opened on an
\* empty directory or on the two files of one save, there are as many chunk
\* records as matrix rows, and row i is the vector the provider returned for
\* the content of chunk i.
C6_IndexAligned ==
    (op = "add_documents" /\ outcome = "returned" /\ ~IsNone(log))
    => /\ chunk_count = Len(StoredRows)
       /\ Len(Get(log)) = chunk_count
       /\ \A i \in 1..chunk_count :
            Get(log)[i] = << chunks[i].content, StoredRows[i] >>

C6_Witness ==
    /\ op = "add_documents"
    /\ outcome = "returned"
    /\ ~IsNone(log)
    /\ ~IsNone(embed_reply)
    /\ chunk_count >= 2
    /\ chunks[1].content # chunks[2].content
    /\ StoredRows[1] # StoredRows[2]

\* C7: on a store of n >= 1 chunks a search with top_k >= 1 returns
\* min(top_k, n) results, each a distinct stored chunk, in order of
\* non-increasing score, and no chunk left out scores higher than a
\* returned one.
C7_TopKRanked ==
    (op = "search" /\ outcome = "returned" /\ chunk_count >= 1 /\ top_k >= 1)
    => /\ Len(results) = Min(top_k, chunk_count)
       /\ \A a, b \in 1..Len(results) : a # b => top_indices[a] # top_indices[b]
       /\ \A a \in 1..Len(results) :
            /\ results[a].chunk = chunks[top_indices[a]]
            /\ results[a].score = similarities[top_indices[a]]
       /\ \A a, b \in 1..Len(results) : a < b => results[a].score >= results[b].score
       /\ \A i \in 1..Len(similarities), a \in 1..Len(results) :
            (\A b \in 1..Len(results) : top_indices[b] # i)
            => similarities[i] <= results[a].score

\* C8: of two chunks with equal scores the one inserted earlier comes first
\* in the results, and when only one of them is returned it is the earlier.
C8_TieBreakByInsertion ==
    (op = "search" /\ outcome = "returned" /\ top_k >= 1)
    => /\ \A a, b \in 1..Len(results) :
            (a < b /\ results[a].score = results[b].score)
            => top_indices[a] < top_indices[b]
       /\ \A a \in 1..Len(results), i \in 1..Len(similarities) :
            ( /\ \A b \in 1..Len(results) : top_indices[b] # i
              /\ similarities[i] = results[a].score )
            => top_indices[a] < i

\* C9: a search with top_k <= 0 returns an empty sequence.
C9_NonPositiveTopK ==
    (op = "search" /\ outcome = "returned" /\ top_k <= 0) => results = << >>

\* C10: a search on a store without chunks returns an empty sequence for
\* every top_k, does not call the provider and changes neither the store
\* nor the directory.
C10_EmptyStoreSearch ==
    [][ (op' = "search" /\ chunks = << >>)
        => ( /\ outcome' = "returned"
             /\ results' = << >>
             /\ IsNone(embed_reply')
             /\ UNCHANGED << store, disk >> ) ]_vars

C10_Witness ==
    /\ op = "search"
    /\ chunks = << >>
    /\ top_k = MaxChunks
    /\ results = << >>
    /\ ~IsNone(meta_file)

\* the positions of split_units a slice holds
SpanUnits(span) == { u \in 0..(Len(split_units) - 1) : span[1] <= u /\ u < span[2] }

\* C11: for non-empty text and chunk_overlap < chunk_size, chunk_text returns
\* at least one chunk, every unit of the text is inside some chunk, and two
\* consecutive chunks share exactly chunk_overlap units whenever the later
\* one is at least chunk_overlap units long.
C11_CoversWithOverlap ==
    (pc = "returned" /\ split_text # << >> /\ split_overlap < split_size)
    => /\ returned_chunks # << >>
       /\ \A u \in 0..(Len(split_units) - 1) :
            \E k \in 1..Len(split_spans) : u \in SpanUnits(split_spans[k])
       /\ \A k \in 1..(Len(split_spans) - 1) :
            Cardinality(SpanUnits(split_spans[k + 1])) >= split_overlap
            => Cardinality(SpanUnits(split_spans[k]) \cap SpanUnits(split_spans[k + 1]))
               = split_overlap

\* C12: with chunk_overlap >= chunk_size every iteration of the loop moves
\* start forward by at least one unit and adds one chunk, the loop never
\* holds more chunks than the text has units, and it ends: the call returns.
C12_LoopTerminates ==
    /\ [][ (pc = "loop" /\ pc' = "loop" /\ split_overlap >= split_size)
           => /\ split_start' >= split_start + 1
              /\ Len(split_chunks') = Len(split_chunks) + 1 ]_vars
    /\ []( (pc \in { "loop", "returned" } /\ split_overlap >= split_size)
           => Len(split_chunks) <= Len(split_units) )
    /\ ( (pc = "loop" /\ split_overlap >= split_size) ~> (pc = "returned") )

C12_Witness ==
    /\ pc = "returned"
    /\ split_overlap > split_size
    /\ split_size >= 1
    /\ Len(returned_chunks) >= 3
    /\ Len(returned_chunks) = Len(split_units)

\* the characters of an identifier in the order of their code points
OrdChars == << "-" >> \o DigitChars \o << "a", "b" >>
Ord(c) == CHOOSE i \in 1..Len(OrdChars) : OrdChars[i] = c

\* s < t as Python compares strings
RECURSIVE LexLess(_, _)
LexLess(s, t) ==
    IF t = << >> THEN FALSE
    ELSE IF s = << >> THEN TRUE
    ELSE IF Head(s) # Head(t) THEN Ord(Head(s)) < Ord(Head(t))
    ELSE LexLess(Tail(s), Tail(t))

\* the number a sequence of digit characters writes; -1 if one is no digit
RECURSIVE DecimalValue(_)
DecimalValue(digits) ==
    IF digits = << >> THEN 0
    ELSE LET last == digits[Len(digits)]
             rest == DecimalValue(SubSeq(digits, 1, Len(digits) - 1))
         IN  IF rest < 0 \/ \A i \in 1..10 : DigitChars[i] # last THEN 0 - 1
             ELSE 10 * rest + (CHOOSE i \in 1..10 : DigitChars[i] = last) - 1

\* the number of decimal digits of n >= 1
RECURSIVE DecimalDigits(_)
DecimalDigits(n) == IF n < 10 THEN 1 ELSE 1 + DecimalDigits(n \div 10)

\* C13: for n >= 1 chunks enumerate_chunks returns n identifiers, the i-th
\* being the prefix, "-" and the ordinal i written in
\* max(4, decimal digits of n) digits with leading zeros; they are pairwise
\* distinct and increase in lexicographic order along the sequence.
C13_SortableIds ==
    (pc = "ids" /\ Len(returned_chunks) >= 1)
    => LET n == Len(returned_chunks)
           width == Max(4, DecimalDigits(n))
           head == Len(id_prefix)
       IN  /\ Len(returned_ids) = n
           /\ \A i \in 1..n :
                /\ Len(returned_ids[i]) = head + 1 + width
                /\ SubSeq(returned_ids[i], 1, head) = id_prefix
                /\ returned_ids[i][head + 1] = "-"
                /\ DecimalValue(SubSeq(returned_ids[i], head + 2, head + 1 + width)) = i
           /\ Cardinality({ returned_ids[i] : i \in 1..n }) = n
           /\ \A i \in 1..(n - 1) : LexLess(returned_ids[i], returned_ids[i + 1])

C13_Witness ==
    /\ pc = "ids"
    /\ Len(returned_chunks) = 10000
    /\ returned_ids[9] = id_prefix \o << "-", "0", "0", "0", "0", "9" >>
    /\ returned_ids[10000] = id_prefix \o << "-", "1", "0", "0", "0", "0" >>

\* C14: in every state of the directory the two files are there together or
\* not at all, they are of one save, and metadata.json lists as many chunks
\* as vectors.npy has rows.
C14_WrittenTogether ==
    /\ IsNone(meta_file) <=> IsNone(vectors_file)
    /\ dir_complete
    /\ (~IsNone(meta_file) /\ ~IsNone(vectors_file))
       => Len(Get(meta_file).chunks) = NRows(Get(vectors_file))

\* C15: for non-empty text of n units and chunk_size >= 1, with
\* step = max(1, chunk_size - chunk_overlap), chunk_text returns
\* ceil(n / step) chunks, the k-th (from 0) being the units
\* [k*step, min(n, k*step + chunk_size)) of the text (decoded, in the token
\* strategy), so no chunk holds more than chunk_size units.
C15_WindowBoundaries ==
    (pc = "returned" /\ split_text # << >> /\ split_size >= 1)
    => LET n == Len(split_units)
           step == IF split_size - split_overlap >= 1 THEN split_size - split_overlap ELSE 1
           count == (n + step - 1) \div step
       IN  /\ Len(returned_chunks) = count
           /\ Len(split_spans) = count
           /\ \A k \in 0..(count - 1) :
                LET first == k * step
                    stop == IF first + split_size <= n THEN first + split_size ELSE n
                    piece == SubSeq(split_units, first + 1, stop)
                IN  /\ split_spans[k + 1] = << first, stop >>
                    /\ stop - first <= split_size
                    /\ returned_chunks[k + 1] =
                         (IF split_tiktoken THEN Decode(piece) ELSE piece)

C15_Witness ==
    /\ pc = "returned"
    /\ split_size = 3
    /\ split_overlap = 1
    /\ ~split_tiktoken
    /\ Len(split_text) = 5
    /\ returned_chunks = << SubSeq(split_text, 1, 3), SubSeq(split_text, 3, 5),
                            SubSeq(split_text, 5, 5) >>

IsPrefix(s, t) == Len(s) <= Len(t) /\ SubSeq(t, 1, Len(s)) = s

\* the ordinal a chunk id carries after the document id and "-"
Ordinal(chunk) == DecimalValue(SubSeq(chunk.id, Len(chunk.document_id) + 2, Len(chunk.id)))

\* C16: an add_documents or search call leaves the chunk list and the matrix
\* rows it found as a prefix of the ones it leaves; the chunks a returning
\* add_documents call appends are those of its documents in input order,
\* each document's chunks with the ordinals 1, 2, ... in order.
C16_AppendOnly ==
    [][ (op' \in { "add_documents", "search" })
        => LET appended == SubSeq(chunks', Len(chunks) + 1, Len(chunks'))
               firsts == SelectSeq(appended, LAMBDA c : Ordinal(c) = 1)
           IN  /\ IsPrefix(chunks, chunks')
               /\ IsPrefix(StoredRows, StoredRows')
               /\ (op' = "search") => (chunks' = chunks /\ embeddings' = embeddings)
               /\ (op' = "add_documents" /\ outcome' = "returned")
                  => /\ [j \in 1..Len(firsts) |-> firsts[j].document_id] = batch_order'
                     /\ \A j \in 1..Len(appended) :
                          \/ Ordinal(appended[j]) = 1
                          \/ /\ j > 1
                             /\ appended[j].document_id = appended[j - 1].document_id
                             /\ Ordinal(appended[j]) = Ordinal(appended[j - 1]) + 1 ]_vars

C16_Witness ==
    /\ op = "add_documents"
    /\ outcome = "returned"
    /\ chunk_count = 2
    /\ ~IsNone(embed_reply)
    /\ Get(embed_reply) = << "array", 1, Get(embeddings).ncols >>
    /\ batch_order = << chunks[2].document_id >>
    /\ chunks[1].document_id # chunks[2].document_id

\* the provider raised in the call of the given reply
ReplyRaised(reply) == ~IsNone(reply) /\ Get(reply) = << "raise" >>

\* C17: an add_documents call whose provider raises or returns an array
\* that is not 2-D, and a search call whose provider raises or returns
\* anything but a 2-D array of one row, raise to the caller and leave the
\* chunk list, the matrix, the model name and both files as they were; no
\* search call changes any of them.
C17_FailFast ==
    [][ /\ ( /\ op' = "add_documents"
             /\ ~IsNone(embed_reply')
             /\ ~ReplyIs2D(embed_reply') )
           => /\ outcome' = IF ReplyRaised(embed_reply') THEN "ProviderError"
                            ELSE "ValueError: Embeddings must be a 2D array"
              /\ UNCHANGED << store, disk >>
        /\ ( /\ op' = "search"
             /\ ~IsNone(embed_reply')
             /\ ~(ReplyIs2D(embed_reply') /\ Get(embed_reply')[2] = 1) )
           => outcome' = IF ReplyRaised(embed_reply') THEN "ProviderError"
                         ELSE "ValueError: Query embedding must be a 2D array with a single row"
        /\ (op' = "search") => UNCHANGED << store, disk >> ]_vars

C17_Witness ==
    /\ op = "add_documents"
    /\ outcome = "ValueError: Embeddings must be a 2D array"
    /\ ~IsNone(embed_reply)
    /\ ~ReplyIs2D(embed_reply)
    /\ chunk_count >= 1
    /\ ~IsNone(meta_file) /\ ~IsNone(vectors_file)

====
